---- MODULE Spec2Model ----
(***************************************************************************)
(* Relationship introspection of DS.Model (system/relationships/ext.js)    *)
(* and the key mapping of DS.JSONSerializer as exercised by its            *)
(* integration tests.                                                      *)
(***************************************************************************)
EXTENDS Integers, Sequences, FiniteSets, TLC

\* Total number of properties defined over all model classes.
MaxDefs == 2

\* ------------------------------------------------------------------------
\* The application's classes.  Post extends Message, Message extends
\* DS.Model ("Model"), whose superclass chain ends there.
Undefined == "undefined"
Null == "null"
Root == "Model"
Types == {"Message", "Post"}
Names == {"author", "replies"}
Kinds == {"belongsTo", "hasMany"}
\* type keys a relationship can be declared with; "ghost" names no model
TypeKeys == Types \cup {"ghost"}
\* values of the `inverse` option: absent, null, or a relationship name
InverseOptions == {Undefined, Null} \cup Names

superclass(type) ==
  CASE type = "Post" -> "Message"
    [] type = "Message" -> Root
    [] OTHER -> Undefined

\* meta() of a computed property, as DS.attr / DS.belongsTo / DS.hasMany build it
AttrMeta == [isRelationship |-> FALSE, isAttribute |-> TRUE, kind |-> "attribute",
             type |-> Undefined, options |-> [inverse |-> Undefined]]
RelMetas == {[isRelationship |-> TRUE, isAttribute |-> FALSE, kind |-> k,
              type |-> t, options |-> [inverse |-> i]] :
                k \in Kinds, t \in TypeKeys, i \in InverseOptions}
Metas == RelMetas \cup {AttrMeta}

VARIABLES
  descs,      \* descs[M]: the computed properties M itself defines, in definition order
  observers,  \* <<class, key, hook>> observers registered by didDefineProperty
  result,     \* what the last operation returned
  serializer, \* the registered serializer's configuration
  record,     \* the record handed to serialize
  json,       \* the payload last serialized or received
  normalized  \* the payload last normalized

relVars == <<descs, observers, result>>
serVars == <<serializer, record, json, normalized>>
vars == <<descs, observers, result, serializer, record, json, normalized>>

\* ------------------------------------------------------------------------
\* Helpers over the class definitions

OwnNames(d, M) == {d[M][i].name : i \in 1..Len(d[M])}

NumDefs(d) == Len(d["Message"]) + Len(d["Post"])

\* Ember's eachComputedProperty: the class's own computed properties, then
\* the inherited ones that the class does not redefine.
RECURSIVE eachComputedProperty(_, _)
eachComputedProperty(d, M) ==
  IF M \notin Types THEN <<>>
  ELSE d[M] \o SelectSeq(eachComputedProperty(d, superclass(M)),
                         LAMBDA p : p.name \notin OwnNames(d, M))

\* store.modelFor(typeKey): the class, or undefined when nothing is registered
typeForRelationshipMeta(meta) ==
  IF meta.type \in Types THEN meta.type ELSE Undefined

\* Ember.Map / Ember.MapWithDefault as functions; a missing key reads as
\* undefined, respectively as the default value []
MapHas(map, key) == key \in DOMAIN map
MapGet(map, key) == IF MapHas(map, key) THEN map[key] ELSE Undefined
MapWithDefaultGet(map, key) == IF key \in DOMAIN map THEN map[key] ELSE <<>>
MapSet(map, key, value) ==
  [k \in (DOMAIN map) \cup {key} |-> IF k = key THEN value ELSE map[k]]
EmptyMap == [k \in {} |-> Undefined]

\* ------------------------------------------------------------------------
\* Class-level relationship introspection

\* relationshipsLoop replacing a type's list instead of pushing onto it
RECURSIVE relationshipsLoop_Overwrite(_, _)
relationshipsLoop_Overwrite(props, map) ==
  IF props = <<>> THEN map
  ELSE LET meta == Head(props)
           key == typeForRelationshipMeta(meta)
           next == IF meta.isRelationship
                   THEN MapSet(map, key, <<[name |-> meta.name, kind |-> meta.kind]>>)
                   ELSE map
       IN relationshipsLoop_Overwrite(Tail(props), next)

\* relationshipsLoop without the meta.isRelationship test
RECURSIVE relationshipsLoop_AnyProperty(_, _)
relationshipsLoop_AnyProperty(props, map) ==
  IF props = <<>> THEN map
  ELSE LET meta == Head(props)
           key == typeForRelationshipMeta(meta)
           next == MapSet(map, key,
                     Append(MapWithDefaultGet(map, key),
                            [name |-> meta.name, kind |-> meta.kind]))
       IN relationshipsLoop_AnyProperty(Tail(props), next)

\* relationships: a MapWithDefault from related type to its descriptors
RECURSIVE relationshipsLoop(_, _)
relationshipsLoop(props, map) ==
  IF props = <<>> THEN map
  ELSE LET meta == Head(props)
           key == typeForRelationshipMeta(meta)
           next == IF meta.isRelationship
                   THEN MapSet(map, key,
                          Append(MapWithDefaultGet(map, key),
                                 [name |-> meta.name, kind |-> meta.kind]))
                   ELSE map
       IN relationshipsLoop(Tail(props), next)

relationships(d, M) == relationshipsLoop(eachComputedProperty(d, M), EmptyMap)

\* relationshipsByNameLoop without the meta.isRelationship test
RECURSIVE relationshipsByNameLoop_AnyProperty(_, _)
relationshipsByNameLoop_AnyProperty(props, map) ==
  IF props = <<>> THEN map
  ELSE LET meta == Head(props)
           relationship == [key |-> meta.name, kind |-> meta.kind,
                            type |-> typeForRelationshipMeta(meta),
                            options |-> meta.options,
                            parentType |-> meta.parentType]
       IN relationshipsByNameLoop_AnyProperty(Tail(props),
                                              MapSet(map, meta.name, relationship))

\* relationshipsByName: a Map from relationship name to its descriptor
RECURSIVE relationshipsByNameLoop(_, _)
relationshipsByNameLoop(props, map) ==
  IF props = <<>> THEN map
  ELSE LET meta == Head(props)
           relationship == [key |-> meta.name, kind |-> meta.kind,
                            type |-> typeForRelationshipMeta(meta),
                            options |-> meta.options,
                            parentType |-> meta.parentType]
           next == IF meta.isRelationship
                   THEN MapSet(map, meta.name, relationship)
                   ELSE map
       IN relationshipsByNameLoop(Tail(props), next)

relationshipsByName(d, M) ==
  relationshipsByNameLoop(eachComputedProperty(d, M), EmptyMap)

typeForRelationship(d, M, name) ==
  LET byName == relationshipsByName(d, M)
  IN IF MapHas(byName, name) THEN MapGet(byName, name).type ELSE Undefined

\* Ember's metaForProperty: the meta of the class's property `name`
metaForProperty(d, M, name) ==
  LET props == eachComputedProperty(d, M)
  IN props[CHOOSE i \in 1..Len(props) : props[i].name = name]

\* Outcomes of a call: a returned value or an Ember.assert that aborts it
Returned(value) == [status |-> "returned", value |-> value, message |-> ""]
ReturnedNull == [status |-> "null", value |-> Null, message |-> ""]
Aborted(message) == [status |-> "aborted", value |-> Null, message |-> message]

\* findPossibleInverses that does not climb to type.superclass
findPossibleInverses_OwnTypeOnly(d, type, inverseType, possibleRelationships) ==
  possibleRelationships \o MapWithDefaultGet(relationships(d, inverseType), type)

RECURSIVE findPossibleInverses(_, _, _, _)
findPossibleInverses(d, type, inverseType, possibleRelationships) ==
  LET relationshipMap == relationships(d, inverseType)
      found == possibleRelationships \o MapWithDefaultGet(relationshipMap, type)
  IN IF superclass(type) # Undefined
     THEN findPossibleInverses(d, superclass(type), inverseType, found)
     ELSE found

\* inverseFor without the `options.inverse === null` return
inverseFor_NoNullCheck(d, M, name) ==
  LET inverseType == typeForRelationship(d, M, name)
  IN IF inverseType = Undefined THEN ReturnedNull
     ELSE
     LET options == metaForProperty(d, M, name).options
     IN IF options.inverse # Undefined
        THEN LET inverseName == options.inverse
                 byName == relationshipsByName(d, inverseType)
                 inverse == MapGet(byName, inverseName)
             IN IF ~MapHas(byName, inverseName)
                THEN Aborted("We found no inverse relationships by the name of")
                ELSE Returned([type |-> inverseType, name |-> inverseName,
                               kind |-> inverse.kind])
        ELSE LET possibleRelationships ==
                   findPossibleInverses(d, M, inverseType, <<>>)
             IN IF Len(possibleRelationships) = 0 THEN ReturnedNull
                ELSE IF Len(possibleRelationships) # 1
                THEN Aborted("multiple possible inverse relationships")
                ELSE Returned([type |-> inverseType,
                               name |-> possibleRelationships[1].name,
                               kind |-> possibleRelationships[1].kind])

inverseFor(d, M, name) ==
  LET inverseType == typeForRelationship(d, M, name)
  IN IF inverseType = Undefined THEN ReturnedNull
     ELSE
     LET options == metaForProperty(d, M, name).options
     IN IF options.inverse = Null THEN ReturnedNull
        ELSE IF options.inverse # Undefined
        THEN LET inverseName == options.inverse
                 byName == relationshipsByName(d, inverseType)
                 inverse == MapGet(byName, inverseName)
             IN IF ~MapHas(byName, inverseName)
                THEN Aborted("We found no inverse relationships by the name of")
                ELSE Returned([type |-> inverseType, name |-> inverseName,
                               kind |-> inverse.kind])
        ELSE LET possibleRelationships ==
                   findPossibleInverses(d, M, inverseType, <<>>)
             IN IF Len(possibleRelationships) = 0 THEN ReturnedNull
                ELSE IF Len(possibleRelationships) # 1
                THEN Aborted("multiple possible inverse relationships")
                ELSE Returned([type |-> inverseType,
                               name |-> possibleRelationships[1].name,
                               kind |-> possibleRelationships[1].kind])

\* relatedTypesLoop without the 'was not found' assertion
RECURSIVE relatedTypesLoop_NoAssert(_, _)
relatedTypesLoop_NoAssert(props, types) ==
  IF props = <<>> THEN Returned(types)
  ELSE LET meta == Head(props)
           type == typeForRelationshipMeta(meta)
       IN IF ~meta.isRelationship THEN relatedTypesLoop_NoAssert(Tail(props), types)
          ELSE IF \E i \in 1..Len(types) : types[i] = type
               THEN relatedTypesLoop_NoAssert(Tail(props), types)
               ELSE relatedTypesLoop_NoAssert(Tail(props), Append(types, type))

\* relatedTypes: the unique types involved in the class's relationships
RECURSIVE relatedTypesLoop(_, _)
relatedTypesLoop(props, types) ==
  IF props = <<>> THEN Returned(types)
  ELSE LET meta == Head(props)
           type == typeForRelationshipMeta(meta)
       IN IF ~meta.isRelationship THEN relatedTypesLoop(Tail(props), types)
          ELSE IF type = Undefined THEN Aborted("was not found")
          ELSE IF \E i \in 1..Len(types) : types[i] = type
               THEN relatedTypesLoop(Tail(props), types)
               ELSE relatedTypesLoop(Tail(props), Append(types, type))

relatedTypes(d, M) == relatedTypesLoop(eachComputedProperty(d, M), <<>>)

\* ------------------------------------------------------------------------
\* Operations

NoResult == [op |-> "none", type |-> Undefined, name |-> Undefined,
             out |-> ReturnedNull]

\* Defining a computed property on class M (Model.extend / reopen), which
\* runs the didDefineProperty hook.
DefineProperty(M, name, meta) ==
  /\ NumDefs(descs) < MaxDefs
  /\ name \notin OwnNames(descs, M)
  /\ descs' = [descs EXCEPT ![M] = Append(@,
                 [name |-> name, isRelationship |-> meta.isRelationship,
                  isAttribute |-> meta.isAttribute, kind |-> meta.kind,
                  type |-> meta.type, options |-> meta.options,
                  parentType |-> M])]
  /\ observers' = IF meta.isRelationship /\ meta.kind = "belongsTo"
                  THEN observers \cup {<<M, name, "belongsToDidChange">>,
                                       <<M, name, "belongsToWillChange">>}
                  ELSE observers
  /\ result' = [NoResult EXCEPT !.op = "didDefineProperty", !.type = M, !.name = name]
  /\ UNCHANGED serVars

InverseFor(M, name) ==
  /\ result' = [op |-> "inverseFor", type |-> M, name |-> name,
                out |-> inverseFor(descs, M, name)]
  /\ UNCHANGED <<descs, observers, serVars>>

GetRelationships(M) ==
  /\ result' = [op |-> "relationships", type |-> M, name |-> Undefined,
                out |-> Returned(relationships(descs, M))]
  /\ UNCHANGED <<descs, observers, serVars>>

GetRelatedTypes(M) ==
  /\ result' = [op |-> "relatedTypes", type |-> M, name |-> Undefined,
                out |-> relatedTypes(descs, M)]
  /\ UNCHANGED <<descs, observers, serVars>>

\* ------------------------------------------------------------------------
\* DS.JSONSerializer key mapping, as the integration tests exercise it

\* the models of the test module and their attributes
ModelAttributes == [post |-> <<"title">>, comment |-> <<"body">>]
Values == {"Rails is omakase", "Another Post"}

\* String.prototype.toUpperCase on the keys that occur
toUpperCase(key) ==
  CASE key = "title" -> "TITLE"
    [] key = "body" -> "BODY"
    [] key = "title_payload_key" -> "TITLE_PAYLOAD_KEY"
    [] OTHER -> key

\* keyForAttribute without the registered override
keyForAttribute_Default(s, key) == key

\* the keyForAttribute hook: the default keeps the key, the tests' override
\* upper-cases it
keyForAttribute(s, key) ==
  IF s.keyForAttribute = "toUpperCase" THEN toUpperCase(key) ELSE key

\* serializer classes the tests register: with or without an `attrs` hash,
\* with or without a keyForAttribute override
Serializers ==
  [attrs : {EmptyMap, [k \in {"title"} |-> "title_payload_key"]},
   keyForAttribute : {"default", "toUpperCase"}]

MapDelete(map, key) == [k \in (DOMAIN map) \ {key} |-> map[k]]

\* serializeAttribute(record, json, key, attribute): json[payloadKey] = value
serializeAttribute(s, rec, payload, key) ==
  LET value == rec.attributes[key]
      payloadKey == IF MapHas(s.attrs, key) THEN s.attrs[key]
                    ELSE keyForAttribute(s, key)
  IN MapSet(payload, payloadKey, value)

RECURSIVE serializeLoop(_, _, _, _)
serializeLoop(s, rec, keys, payload) ==
  IF keys = <<>> THEN payload
  ELSE serializeLoop(s, rec, Tail(keys),
                     serializeAttribute(s, rec, payload, Head(keys)))

\* serialize(record): every attribute of the record through serializeAttribute
serialize(s, rec) == serializeLoop(s, rec, ModelAttributes[rec.type], EmptyMap)

\* moving a payload key to the attribute name: hash[key] = hash[payloadKey];
\* delete hash[payloadKey]
MoveKey(hash, key, payloadKey) ==
  MapDelete(MapSet(hash, key, MapGet(hash, payloadKey)), payloadKey)

RECURSIVE normalizeAttributes(_, _, _)
normalizeAttributes(s, keys, hash) ==
  IF keys = <<>> THEN hash
  ELSE LET key == Head(keys)
           payloadKey == keyForAttribute(s, key)
       IN normalizeAttributes(s, Tail(keys),
            IF key = payloadKey THEN hash ELSE MoveKey(hash, key, payloadKey))

RECURSIVE normalizeUsingDeclaredMapping(_, _, _)
normalizeUsingDeclaredMapping(s, keys, hash) ==
  IF keys = {} THEN hash
  ELSE LET key == CHOOSE k \in keys : TRUE
       IN normalizeUsingDeclaredMapping(s, keys \ {key},
            MoveKey(hash, key, s.attrs[key]))

\* normalize(type, hash), which extractSingle applies to the payload
normalize(s, type, hash) ==
  normalizeUsingDeclaredMapping(s, DOMAIN s.attrs,
    normalizeAttributes(s, ModelAttributes[type], hash))

NoSerializer == [attrs |-> EmptyMap, keyForAttribute |-> "default"]
NoRecord == [type |-> Undefined, attributes |-> EmptyMap]
NoPayload == [from |-> "none", type |-> Undefined, body |-> EmptyMap]

\* payloads the tests hand to extractSingle / normalize
InputKeys == {"title", "TITLE", "title_payload_key", "body"}
InputPayloads == {[k \in {key} |-> v] : key \in InputKeys, v \in Values}

\* store.createRecord(type, {attribute: value})
CreateRecord(type, value) ==
  /\ record' = [type |-> type,
                attributes |-> [k \in {ModelAttributes[type][1]} |-> value]]
  /\ json' = NoPayload
  /\ normalized' = NoPayload
  /\ UNCHANGED <<serializer, relVars>>

\* serializer.serialize(record)
Serialize ==
  /\ record # NoRecord
  /\ json' = [from |-> "serialize", type |-> record.type,
              body |-> serialize(serializer, record)]
  /\ normalized' = NoPayload
  /\ UNCHANGED <<serializer, record, relVars>>

\* a payload arriving from the server
ReceivePayload(type, payload) ==
  /\ json' = [from |-> "server", type |-> type, body |-> payload]
  /\ normalized' = NoPayload
  /\ UNCHANGED <<serializer, record, relVars>>

\* serializer.extractSingle(store, type, payload) / normalize(type, hash)
ExtractSingle ==
  /\ json.from # "none"
  /\ normalized' = [json EXCEPT !.body = normalize(serializer, json.type, json.body)]
  /\ UNCHANGED <<serializer, record, json, relVars>>

\* ------------------------------------------------------------------------
\* Specifications

Init ==
  /\ descs = [M \in Types |-> <<>>]
  /\ observers = {}
  /\ result = NoResult
  /\ serializer = NoSerializer
  /\ record = NoRecord
  /\ json = NoPayload
  /\ normalized = NoPayload

Next ==
  \/ \E M \in Types, name \in Names, meta \in Metas : DefineProperty(M, name, meta)
  \/ \E M \in Types, name \in Names : InverseFor(M, name)
  \/ \E M \in Types : GetRelationships(M)
  \/ \E M \in Types : GetRelatedTypes(M)

Spec == Init /\ [][Next]_vars

SerializerInit ==
  /\ descs = [M \in Types |-> <<>>]
  /\ observers = {}
  /\ result = NoResult
  /\ serializer \in Serializers
  /\ record = NoRecord
  /\ json = NoPayload
  /\ normalized = NoPayload

SerializerNext ==
  \/ \E type \in DOMAIN ModelAttributes, value \in Values : CreateRecord(type, value)
  \/ Serialize
  \/ \E type \in DOMAIN ModelAttributes, payload \in InputPayloads :
       ReceivePayload(type, payload)
  \/ ExtractSingle

SerializerSpec == SerializerInit /\ [][SerializerNext]_vars

\* ------------------------------------------------------------------------
\* Vocabulary of the properties

\* the relationships of class M, inherited ones included
RelationshipsOf(M) ==
  LET props == eachComputedProperty(descs, M)
  IN {props[i] : i \in {j \in 1..Len(props) : props[j].isRelationship}}

RelationshipNamed(M, name) == CHOOSE p \in RelationshipsOf(M) : p.name = name

IsRelationship(M, name) == \E p \in RelationshipsOf(M) : p.name = name

\* M and every class above it
SuperclassChain(M) ==
  {M} \cup (IF M = "Post" THEN {"Message", Root} ELSE
            IF M = "Message" THEN {Root} ELSE {})

\* the relationships of T whose target is M or a class above M
PointingBack(T, M) == {p \in RelationshipsOf(T) : p.type \in SuperclassChain(M)}

\* the last operation was M.inverseFor(name) on a relationship whose related
\* type resolves
InverseForCalled ==
  /\ result.op = "inverseFor"
  /\ IsRelationship(result.type, result.name)
  /\ RelationshipNamed(result.type, result.name).type \in Types

CalledRelationship == RelationshipNamed(result.type, result.name)

\* what a call came to
IsNull(out) == out.status = "null"
IsAborted(out, message) == out.status = "aborted" /\ out.message = message
IsDescriptor(out, type, name, kind) ==
  /\ out.status = "returned"
  /\ out.value = [type |-> type, name |-> name, kind |-> kind]

\* ------------------------------------------------------------------------
\* C1: whenever M.inverseFor(r) returns a descriptor {type, name, kind}, the
\* relationship `name` exists on `type`, its target is M or a superclass of
\* M, and `kind` is its kind -- for automatic and for explicit inverses.
C1_InversePointsBack ==
  (result.op = "inverseFor" /\ result.out.status = "returned") =>
    \E p \in RelationshipsOf(result.out.value.type) :
      /\ p.name = result.out.value.name
      /\ p.kind = result.out.value.kind
      /\ p.type \in SuperclassChain(result.type)

\* C2: without an `inverse` option the candidates are the relationships of
\* the related type that point at M or at a class above M; none gives null,
\* exactly one gives that relationship's descriptor.
C2_AutomaticInverse ==
  (InverseForCalled /\ CalledRelationship.options.inverse = Undefined) =>
    LET T == CalledRelationship.type
        candidates == PointingBack(T, result.type)
    IN /\ candidates = {} => IsNull(result.out)
       /\ Cardinality(candidates) = 1 =>
            \E c \in candidates :
              IsDescriptor(result.out, T, c.name, c.kind)

\* a single candidate that points at M's superclass was returned
C2_Witness ==
  /\ InverseForCalled
  /\ CalledRelationship.options.inverse = Undefined
  /\ result.type = "Post"
  /\ Cardinality(PointingBack(CalledRelationship.type, "Post")) = 1
  /\ \E c \in PointingBack(CalledRelationship.type, "Post") : c.type = "Message"
  /\ result.out.status = "returned"

\* no candidate at all: null was returned
C2_WitnessNone ==
  /\ InverseForCalled
  /\ CalledRelationship.options.inverse = Undefined
  /\ PointingBack(CalledRelationship.type, result.type) = {}
  /\ IsNull(result.out)

\* C3: without an `inverse` option and with more than one candidate the call
\* aborts with the 'multiple possible inverse relationships' assertion.
C3_MultipleInversesAbort ==
  (/\ InverseForCalled
   /\ CalledRelationship.options.inverse = Undefined
   /\ Cardinality(PointingBack(CalledRelationship.type, result.type)) > 1) =>
    IsAborted(result.out, "multiple possible inverse relationships")

\* two candidates, one pointing at M and one at M's superclass: aborted
C3_Witness ==
  /\ InverseForCalled
  /\ CalledRelationship.options.inverse = Undefined
  /\ result.type = "Post"
  /\ \E c1, c2 \in PointingBack(CalledRelationship.type, "Post") :
       c1.type = "Post" /\ c2.type = "Message"
  /\ result.out.status = "aborted"

\* C4: an `inverse` option naming no relationship of the related type aborts
\* with the 'We found no inverse relationships' assertion; naming an existing
\* one returns it with its kind, whatever the automatic search would find.
C4_ExplicitInverse ==
  (InverseForCalled /\ CalledRelationship.options.inverse \in Names) =>
    LET T == CalledRelationship.type
        inverseName == CalledRelationship.options.inverse
    IN IF IsRelationship(T, inverseName)
       THEN IsDescriptor(result.out, T, inverseName,
                         RelationshipNamed(T, inverseName).kind)
       ELSE IsAborted(result.out, "We found no inverse relationships by the name of")

\* an explicit inverse was returned although two relationships point back
C4_Witness ==
  /\ InverseForCalled
  /\ CalledRelationship.options.inverse \in Names
  /\ Cardinality(PointingBack(CalledRelationship.type, result.type)) > 1
  /\ result.out.status = "returned"

\* the option names an attribute of the related type: aborted
C4_WitnessMissing ==
  /\ InverseForCalled
  /\ CalledRelationship.options.inverse \in Names
  /\ \E i \in 1..Len(eachComputedProperty(descs, CalledRelationship.type)) :
       LET p == eachComputedProperty(descs, CalledRelationship.type)[i]
       IN p.name = CalledRelationship.options.inverse /\ p.isAttribute
  /\ result.out.status = "aborted"

\* C5: inverseFor(name) returns null, raising nothing, when `name` is no
\* relationship of M with a type, or when its `inverse` option is null, even
\* if relationships of the related type point back at M.
C5_NullInverse ==
  (/\ result.op = "inverseFor"
   /\ \/ ~IsRelationship(result.type, result.name)
      \/ CalledRelationship.type \notin Types
      \/ CalledRelationship.options.inverse = Null) =>
    IsNull(result.out)

\* `inverse: null` with two relationships pointing back: null was returned
C5_Witness ==
  /\ InverseForCalled
  /\ CalledRelationship.options.inverse = Null
  /\ Cardinality(PointingBack(CalledRelationship.type, result.type)) > 1
  /\ IsNull(result.out)

\* the name is an attribute, or a relationship to an unregistered type
C5_WitnessNoType ==
  /\ result.op = "inverseFor"
  /\ IsRelationship(result.type, result.name)
  /\ CalledRelationship.type \notin Types
  /\ CalledRelationship.options.inverse \in Names
  /\ IsNull(result.out)

\* C6: the `relationships` map gives, for every related type T, the {name,
\* kind} descriptors of exactly the model's relationships whose target is T,
\* in the order the model's properties are enumerated; a type without any
\* yields the empty list.
DescriptorsFor(M, T) ==
  LET props == eachComputedProperty(descs, M)
      rels == SelectSeq(props, LAMBDA p :
                p.isRelationship /\ (IF p.type \in Types THEN p.type = T
                                     ELSE T = Undefined))
  IN [i \in 1..Len(rels) |-> [name |-> rels[i].name, kind |-> rels[i].kind]]

C8_RelatedTypesAbort ==
  result.op = "relatedTypes" =>
    /\ (\E p \in RelationshipsOf(result.type) : p.type \notin Types) =>
         IsAborted(result.out, "was not found")
    /\ result.out.status = "returned" =>
         \A i \in 1..Len(result.out.value) : result.out.value[i] \in Types

\* a resolvable relationship followed by an unresolvable one: aborted
C8_Witness ==
  /\ result.op = "relatedTypes"
  /\ \E p, q \in RelationshipsOf(result.type) : p.type \in Types /\ q.type \notin Types
  /\ result.out.status = "aborted"

\* C7: a serializer's key renaming works in both directions: serialize
\* writes an attribute under its payload key and not under its own name,
\* extraction reads it from that payload key, and extracting what was
\* serialized gives back the attribute's value.
PayloadKeyOf(attribute) ==
  IF attribute \in DOMAIN serializer.attrs THEN serializer.attrs[attribute]
  ELSE IF serializer.keyForAttribute = "toUpperCase" THEN toUpperCase(attribute)
  ELSE attribute

AttributesOf(type) == {ModelAttributes[type][i] : i \in 1..Len(ModelAttributes[type])}

====
